---- MODULE Spec2Model ----
(***************************************************************************)
(* The Chess wager ledger of src/chess.sol (contract Chess, lines 6-176)   *)
(* as a state machine.  One committed transaction is one step.  A call that *)
(* reverts leaves the ledger exactly as it was (the EVM rolls back every    *)
(* write and transfer of the transaction), so it is no step: each function *)
(* has an operator <name>Error giving the revert reason of a call in the   *)
(* current state, or OK, and the action is enabled when that is OK.        *)
(***************************************************************************)
EXTENDS Integers, Sequences, FiniteSets, TLC

(* ------------------------------ bounds -------------------------------- *)

MaxGames == 2
MaxTime == 2
MaxValue == 1
MaxHandlers == 2

(* ---------------------- identities and configuration ------------------ *)

\* address(0): the value of playerBlack until somebody joins.
Zero == "0x0"

\* The externally owned accounts and contract wallets that send transactions.
Callers == {"A", "B", "C"}

\* The ledger tells addresses apart by equality only, so the roles are
\* fixed: A creates the sessions, A and B send joinGame (A's own is turned
\* away), and C stays a third party.  All three send move and callTimeout.
Creators == {"A"}
Joiners == {"A", "B"}

\* Set by the constructor; the one key whose signatures verifyMove accepts.
oracleAddress == "oracle"

\* A key that is not the oracle's.
Mallory == "mallory"

\* What ecrecover yields for a signature made over another digest: some
\* address unrelated to the signing key.
Unrelated == "0xdead"

\* Set by the constructor, in the units of block.timestamp.
moveTimeout == 1

startingFEN == "start"

\* enum Result {InProgress, WhiteWon, BlackWon, Draw}
InProgress == 0
WhiteWon == 1
BlackWon == 2
Draw == 3

OK == "ok"

GameIds == 0..MaxGames
Values == 0..MaxValue

(* ------------------------- the oracle's chess rules ------------------- *)

\* The positions of a small game and the transitions the oracle's rule
\* engine attests: white moves from "start" and from "b", black from "a".
Legal ==
    { [prior |-> "start", newFen |-> "a",  result |-> InProgress],
      [prior |-> "a",     newFen |-> "b",  result |-> InProgress],
      [prior |-> "a",     newFen |-> "bm", result |-> BlackWon],
      [prior |-> "b",     newFen |-> "wm", result |-> WhiteWon],
      [prior |-> "b",     newFen |-> "dr", result |-> Draw] }

(* ----------------------------- signatures ----------------------------- *)

\* The signed message as it would be without _gameId; C33 depends on the
\* difference.
messageHash_NoGameId(gameId, newFen, result) == <<newFen, result>>

\* keccak256(abi.encodePacked(_gameId, _newFen, _result)): injective on the
\* triple (one dynamic field between two fixed-width ones).
messageHash(gameId, newFen, result) == <<gameId, newFen, result>>

getEthSignedMessageHash(h) == <<"Ethereum Signed Message:32", h>>

\* The 65 bytes key produces over digest.
Sign(key, digest) == [len |-> 65, signer |-> key, signed |-> digest]

\* The oracle is stateless: asked with (game_id, fen, uci_move) it attests
\* the legal transition t for game gameId, whatever the ledger holds.
OracleAttest(gameId, t) ==
    Sign(oracleAddress,
         getEthSignedMessageHash(messageHash(gameId, t.newFen, t.result)))

\* How the signature of a move(g, t.newFen, t.result, sig) call was obtained:
\*   exact       the oracle's attestation of t for game g
\*   otherGame   the oracle's attestation of t for another game id
\*   otherMove   the oracle's attestation of another transition for game g
\*   forged      the same digest signed with a key that is not the oracle's
\*   short       the attestation with its last byte cut off
SigClasses == {"exact", "otherGame", "otherMove", "forged", "short"}

OtherGame(g) == CHOOSE h \in GameIds : h # g /\ h # 0

OtherMove(t) == CHOOSE u \in Legal : u.newFen # t.newFen /\ u.result = InProgress

SigOf(class, g, t) ==
    CASE class = "exact"     -> OracleAttest(g, t)
      [] class = "otherGame" -> OracleAttest(OtherGame(g), t)
      [] class = "otherMove" -> OracleAttest(g, OtherMove(t))
      [] class = "forged"    ->
            Sign(Mallory, getEthSignedMessageHash(messageHash(g, t.newFen, t.result)))
      [] class = "short"     -> [OracleAttest(g, t) EXCEPT !.len = 64]

\* splitSignature: require(sig.length == 65)
splitSignatureError(sig) ==
    IF sig.len # 65 THEN "invalid signature length" ELSE OK

\* recoverSigner as it would be if the recovered key were not bound to the
\* digest; C5 depends on the difference.
recoverSigner_IgnoresDigest(ethSignedMessageHash, sig) == sig.signer

\* ecrecover on the (r, s, v) of sig.
recoverSigner(ethSignedMessageHash, sig) ==
    IF sig.signed = ethSignedMessageHash THEN sig.signer ELSE Unrelated

verifyMoveError(gameId, newFen, result, sig) ==
    IF splitSignatureError(sig) # OK THEN splitSignatureError(sig)
    ELSE IF recoverSigner(getEthSignedMessageHash(messageHash(gameId, newFen, result)),
                          sig) # oracleAddress
         THEN "Invalid signature"
         ELSE OK

(* ------------------------------- state -------------------------------- *)

VARIABLES
    games,         \* mapping(uint256 => Game)
    gameCounter,   \* uint256
    balance,       \* the ether the contract holds
    now,           \* block.timestamp
    payouts,       \* per game id, the transfers made for it, in order
    movesParity,   \* per game id, the number of accepted moves modulo 2
    receipt,       \* how the last transaction ended: NoReceipt when it went
                   \* through, the revert reason when it was rolled back
    front          \* the front-end: its React state and where its handlers
                   \* and its poll stand

vars ==
    <<games, gameCounter, balance, now, payouts, movesParity, receipt, front>>

\* The receipt of a transaction that was not reverted.
NoReceipt == [fn |-> "none", error |-> OK, sent |-> 0, dirty |-> FALSE]

\* What the mapping holds for an id that was never written.
NoGame ==
    [gameId |-> 0, playerWhite |-> Zero, playerBlack |-> Zero, fen |-> "",
     lastMoveTimestamp |-> 0, betAmount |-> 0, isActive |-> FALSE,
     isWhiteTurn |-> FALSE]

\* The executeOracleMove calls that can be in flight at once.
Handlers == 1..MaxHandlers

YourTurn == "Your Turn!"
OpponentsTurn == "Opponent's Turn"

\* What a callback sees of pendingMove and status: the values of the render
\* that created it, not the values at the time it runs. Of status the code
\* reads only whether it is one of the two turn banners.
Closure(f) ==
    [pendingMove |-> f.pendingMove,
     turnBanner |-> f.status \in {YourTurn, OpponentsTurn}]

\* An executeOracleMove that is not running: where it stands, whether the
\* oracle answered with an attestation, whether contract.move returned a
\* transaction, what the handler returned, the render it was created in.
IdleHandler ==
    [pc |-> "idle", attested |-> FALSE, sent |-> FALSE, ret |-> "none",
     seen |-> [pendingMove |-> FALSE, turnBanner |-> FALSE]]

\* A fetchGameState that is not running; while it awaits contract.games it
\* holds the pendingMove and status of the render that created it.
IdlePoll ==
    [pc |-> "idle", seen |-> [pendingMove |-> FALSE, turnBanner |-> FALSE]]

\* gameState before the first fetch (null in the source).
NoGameState == [loaded |-> FALSE, isActive |-> FALSE, myTurn |-> FALSE]

\* The page after loading, for an account that is a party of the session or
\* a spectator: the useState defaults, nothing running.
Loaded(account) ==
    [account |-> account, loading |-> FALSE, pendingMove |-> FALSE,
     status |-> "", gameState |-> NoGameState,
     handlers |-> [h \in Handlers |-> IdleHandler],
     poll |-> IdlePoll, other |-> "idle"]

FrontLoaded == Loaded("player")

Init ==
    /\ games = [g \in GameIds |-> NoGame]
    /\ gameCounter = 0
    /\ balance = 0
    /\ now = 0
    /\ payouts = [g \in GameIds |-> <<>>]
    /\ movesParity = [g \in GameIds |-> 0]
    /\ receipt = NoReceipt
    /\ front = FrontLoaded

(* ----------------------------- operations ----------------------------- *)

\* _getActiveGame as it would be without its require; C2 depends on the
\* difference.
getActiveGameError_Skipped(g) == OK

\* _getActiveGame: require(game.isActive)
getActiveGameError(g) ==
    IF ~games[g].isActive THEN "Game is not active" ELSE OK

\* newGame's record as it would be without lastMoveTimestamp =
\* block.timestamp.
newGameRecord_NoTimestamp(id, sender, value, time) ==
    [gameId |-> id, playerWhite |-> sender, playerBlack |-> Zero,
     fen |-> startingFEN, lastMoveTimestamp |-> 0, betAmount |-> value,
     isActive |-> TRUE, isWhiteTurn |-> TRUE]

newGameRecord(id, sender, value, time) ==
    [gameId |-> id, playerWhite |-> sender, playerBlack |-> Zero,
     fen |-> startingFEN, lastMoveTimestamp |-> time, betAmount |-> value,
     isActive |-> TRUE, isWhiteTurn |-> TRUE]

\* newGame as it would be if it wrote the record before counting it
\* (games[gameCounter] = ...; gameCounter++): ids would start at 0.
newGame_IdsFromZero(sender, value) ==
    /\ gameCounter < MaxGames
    /\ gameCounter' = gameCounter + 1
    /\ games' = [games EXCEPT ![gameCounter] =
                    newGameRecord(gameCounter, sender, value, now)]
    /\ balance' = balance + value
    /\ receipt' = NoReceipt
    /\ UNCHANGED <<now, payouts, movesParity, front>>

newGame(sender, value) ==
    /\ gameCounter < MaxGames
    /\ gameCounter' = gameCounter + 1
    /\ games' = [games EXCEPT ![gameCounter + 1] =
                    newGameRecord(gameCounter + 1, sender, value, now)]
    /\ balance' = balance + value
    /\ receipt' = NoReceipt
    /\ UNCHANGED <<now, payouts, movesParity, front>>

\* joinGame's requires as they would be without the one on msg.value;
\* C34 depends on the difference.
joinGameError_AnyDeposit(g, sender, value) ==
    IF getActiveGameError(g) # OK THEN getActiveGameError(g)
    ELSE IF games[g].playerBlack # Zero THEN "Game already has two players"
    ELSE IF games[g].playerWhite = sender THEN "Cannot join your own game"
    ELSE OK

\* joinGame's requires as they would be without the one that keeps the
\* creator out; C35 depends on the difference.
joinGameError_OwnGame(g, sender, value) ==
    IF getActiveGameError(g) # OK THEN getActiveGameError(g)
    ELSE IF games[g].playerBlack # Zero THEN "Game already has two players"
    ELSE IF value # games[g].betAmount THEN "InvalidBetAmount"
    ELSE OK

\* joinGame's requires, in order; OK when the call goes through.
joinGameError(g, sender, value) ==
    IF getActiveGameError(g) # OK THEN getActiveGameError(g)
    ELSE IF games[g].playerBlack # Zero THEN "Game already has two players"
    ELSE IF games[g].playerWhite = sender THEN "Cannot join your own game"
    ELSE IF value # games[g].betAmount THEN "InvalidBetAmount"
    ELSE OK

\* joinGame's writes as they would be without betAmount += msg.value;
\* C31 depends on the difference.
joinedGame_KeepsBet(game, sender, value) ==
    [game EXCEPT !.playerBlack = sender]

\* joinGame's writes: playerBlack and betAmount, nothing else.
joinedGame(game, sender, value) ==
    [game EXCEPT !.playerBlack = sender, !.betAmount = game.betAmount + value]

\* joinGame as it would be if it wrote to the newest session instead of
\* the one it checked; C36 depends on the difference.
joinGame_JoinsNewest(g, sender, value) ==
    /\ joinGameError(g, sender, value) = OK
    /\ games' = [games EXCEPT ![gameCounter] =
                    joinedGame(games[gameCounter], sender, value)]
    /\ balance' = balance + value
    /\ receipt' = NoReceipt
    /\ UNCHANGED <<gameCounter, now, payouts, movesParity, front>>

joinGame(g, sender, value) ==
    /\ joinGameError(g, sender, value) = OK
    /\ games' = [games EXCEPT ![g] = joinedGame(games[g], sender, value)]
    /\ balance' = balance + value
    /\ receipt' = NoReceipt
    /\ UNCHANGED <<gameCounter, now, payouts, movesParity, front>>

\* The party move() lets through: playerWhite on white's turn, playerBlack
\* (address(0) until somebody joins) on black's.
TurnHolder(game) ==
    IF game.isWhiteTurn THEN game.playerWhite ELSE game.playerBlack

\* move's turn require as it would be if it let either party through,
\* whoever holds the turn; C4 depends on the difference.
turnError_AnyParty(game, sender) ==
    IF sender = game.playerWhite \/ sender = game.playerBlack
    THEN OK ELSE "Not your turn"

\* move as it would be without its turn require; C29 depends on the
\* difference.
turnError_AnyCaller(game, sender) == OK

turnError(game, sender) ==
    IF (game.isWhiteTurn /\ sender = game.playerWhite)
       \/ (~game.isWhiteTurn /\ sender = game.playerBlack)
    THEN OK ELSE "Not your turn"

\* move's writes as they would be if proceedResult's isActive = false ran
\* whatever the result; C20 depends on the difference.
movedGame_Deactivates(game, newFen, time) ==
    [game EXCEPT !.fen = newFen, !.lastMoveTimestamp = time,
                 !.isWhiteTurn = ~game.isWhiteTurn, !.isActive = FALSE]

\* move's writes as they would be without the flip of isWhiteTurn, the
\* mover staying on turn; C6 and C17 depend on the difference.
movedGame_KeepsTurn(game, newFen, time) ==
    [game EXCEPT !.fen = newFen, !.lastMoveTimestamp = time]

\* move's writes as they would be without lastMoveTimestamp =
\* block.timestamp; C28 depends on the difference.
movedGame_KeepsTimestamp(game, newFen, time) ==
    [game EXCEPT !.fen = newFen, !.isWhiteTurn = ~game.isWhiteTurn]

\* move's writes before proceedResult.
movedGame(game, newFen, time) ==
    [game EXCEPT !.fen = newFen, !.lastMoveTimestamp = time,
                 !.isWhiteTurn = ~game.isWhiteTurn]

\* The finalizing write as it would be if isActive were not cleared; C1
\* depends on the difference.
finishedGame_StaysActive(game) == game

\* proceedResult's and callTimeout's write.
finishedGame(game) == [game EXCEPT !.isActive = FALSE]

Transfer(to, amount, via) == [to |-> to, amount |-> amount, via |-> via]

\* proceedResult's transfers as they would be with the recipients of the
\* two wins swapped (C18 depends on the difference) and with the draw's
\* second transfer left out (C19 depends on the difference).
proceedResultTransfers_WinsSwapped(game, result) ==
    CASE result = WhiteWon -> <<Transfer(game.playerBlack, game.betAmount, "move")>>
      [] result = BlackWon -> <<Transfer(game.playerWhite, game.betAmount, "move")>>
      [] result = Draw     -> <<Transfer(game.playerWhite, game.betAmount \div 2, "move"),
                                Transfer(game.playerBlack, game.betAmount \div 2, "move")>>
      [] OTHER             -> <<>>

proceedResultTransfers_DrawPaysOne(game, result) ==
    CASE result = WhiteWon -> <<Transfer(game.playerWhite, game.betAmount, "move")>>
      [] result = BlackWon -> <<Transfer(game.playerBlack, game.betAmount, "move")>>
      [] result = Draw     -> <<Transfer(game.playerWhite, game.betAmount \div 2, "move")>>
      [] OTHER             -> <<>>

\* The transfers proceedResult makes, in order.
proceedResultTransfers(game, result) ==
    CASE result = WhiteWon -> <<Transfer(game.playerWhite, game.betAmount, "move")>>
      [] result = BlackWon -> <<Transfer(game.playerBlack, game.betAmount, "move")>>
      [] result = Draw     -> <<Transfer(game.playerWhite, game.betAmount \div 2, "move"),
                                Transfer(game.playerBlack, game.betAmount \div 2, "move")>>
      [] OTHER             -> <<>>

\* _safeTransfer as it would be without require(success): a call the
\* recipient rejects goes unnoticed; C16 depends on the difference.
safeTransferError_Unchecked(recipient, amount, bal, refuser) ==
    IF recipient = Zero THEN "Invalid recipient" ELSE OK

\* _safeTransfer: the zero recipient is refused; the call fails when the
\* recipient rejects the ether or the contract does not hold the amount.
safeTransferError(recipient, amount, bal, refuser) ==
    IF recipient = Zero THEN "Invalid recipient"
    ELSE IF recipient = refuser \/ amount > bal THEN "Ether transfer failed via call"
    ELSE OK

RECURSIVE safeTransfersError(_, _, _)
safeTransfersError(ts, bal, refuser) ==
    IF ts = <<>> THEN OK
    ELSE IF safeTransferError(ts[1].to, ts[1].amount, bal, refuser) # OK
         THEN safeTransferError(ts[1].to, ts[1].amount, bal, refuser)
         ELSE safeTransfersError(Tail(ts), bal - ts[1].amount, refuser)

RECURSIVE TotalOf(_)
TotalOf(ts) == IF ts = <<>> THEN 0 ELSE ts[1].amount + TotalOf(Tail(ts))

proceedResultError(game, result, bal, refuser) ==
    IF ~game.isActive THEN "Game is still in progress"
    ELSE safeTransfersError(proceedResultTransfers(finishedGame(game), result),
                            bal, refuser)

\* move's requires, in order, then proceedResult's when the result ends the
\* game; refuser is the address (if any) that rejects ether in this call.
moveError(g, sender, newFen, result, sig, refuser) ==
    IF getActiveGameError(g) # OK THEN getActiveGameError(g)
    ELSE IF turnError(games[g], sender) # OK THEN turnError(games[g], sender)
    ELSE IF verifyMoveError(g, newFen, result, sig) # OK
         THEN verifyMoveError(g, newFen, result, sig)
    ELSE IF result # InProgress
         THEN proceedResultError(movedGame(games[g], newFen, now), result,
                                 balance, refuser)
    ELSE OK

move(g, sender, t, class, refuser) ==
    LET moved == movedGame(games[g], t.newFen, now)
        paid == proceedResultTransfers(moved, t.result)
    IN
    /\ moveError(g, sender, t.newFen, t.result, SigOf(class, g, t), refuser) = OK
    /\ games' = [games EXCEPT ![g] =
                    IF t.result # InProgress THEN finishedGame(moved) ELSE moved]
    /\ balance' = balance - TotalOf(paid)
    /\ payouts' = [payouts EXCEPT ![g] = payouts[g] \o paid]
    /\ movesParity' = [movesParity EXCEPT ![g] = (movesParity[g] + 1) % 2]
    /\ receipt' = NoReceipt
    /\ UNCHANGED <<gameCounter, now, front>>

\* callTimeout's deadline check as it would be one unit early (C8 depends
\* on the difference) and with > for >=, leaving the deadline itself out
\* (C9 depends on the difference).
timeoutReached_OneEarly(game, time) ==
    time + 1 >= game.lastMoveTimestamp + moveTimeout

timeoutReached_Strict(game, time) == time > game.lastMoveTimestamp + moveTimeout

\* require(block.timestamp >= game.lastMoveTimestamp + moveTimeout)
timeoutReached(game, time) == time >= game.lastMoveTimestamp + moveTimeout

\* callTimeout's choice of recipient as it would be with its two branches
\* swapped, paying the party on turn; C12 depends on the difference.
callTimeoutRecipient_TurnHolder(game) ==
    IF game.isWhiteTurn THEN game.playerWhite ELSE game.playerBlack

\* Who callTimeout pays: playerBlack on white's turn, playerWhite on black's.
callTimeoutRecipient(game) ==
    IF game.isWhiteTurn THEN game.playerBlack ELSE game.playerWhite

\* address.transfer: reverts when the recipient rejects the ether or the
\* contract does not hold the amount; address(0) takes whatever it is sent.
transferError(recipient, amount, bal, refuser) ==
    IF (recipient = refuser /\ recipient # Zero) \/ amount > bal
    THEN "transfer failed" ELSE OK

\* callTimeout's requires as they would be without the one on msg.sender.
callTimeoutError_AnyCaller(g, sender, refuser) ==
    IF getActiveGameError(g) # OK THEN getActiveGameError(g)
    ELSE IF ~timeoutReached(games[g], now) THEN "Move timeout not reached"
    ELSE transferError(callTimeoutRecipient(games[g]), games[g].betAmount,
                       balance, refuser)

callTimeoutError(g, sender, refuser) ==
    IF getActiveGameError(g) # OK THEN getActiveGameError(g)
    ELSE IF ~timeoutReached(games[g], now) THEN "Move timeout not reached"
    ELSE IF ~(sender = games[g].playerWhite \/ sender = games[g].playerBlack)
         THEN "Only players can call timeout"
    ELSE transferError(callTimeoutRecipient(games[g]), games[g].betAmount,
                       balance, refuser)

callTimeout(g, sender, refuser) ==
    LET paid == <<Transfer(callTimeoutRecipient(games[g]), games[g].betAmount,
                           "callTimeout")>>
    IN
    /\ callTimeoutError(g, sender, refuser) = OK
    /\ games' = [games EXCEPT ![g] = finishedGame(games[g])]
    /\ balance' = balance - TotalOf(paid)
    /\ payouts' = [payouts EXCEPT ![g] = payouts[g] \o paid]
    /\ receipt' = NoReceipt
    /\ UNCHANGED <<gameCounter, now, movesParity, front>>

\* block.timestamp advances between transactions.
Tick ==
    /\ now < MaxTime
    /\ now' = now + 1
    /\ UNCHANGED <<games, gameCounter, balance, payouts, movesParity,
                   receipt, front>>

\* The addresses whose refusal of ether matters to a call on game g: its
\* parties; Zero stands for "nobody refuses".
Refusers(g) == {Zero, games[g].playerWhite, games[g].playerBlack}

Next ==
    \/ \E sender \in Creators, value \in Values : newGame(sender, value)
    \/ \E g \in GameIds, sender \in Joiners, value \in Values :
          joinGame(g, sender, value)
    \/ \E g \in GameIds, sender \in Callers :
          \* move's first two requires, before its arguments are enumerated
          /\ getActiveGameError(g) = OK
          /\ turnError(games[g], sender) = OK
          /\ \E t \in Legal, class \in SigClasses, refuser \in Refusers(g) :
                 move(g, sender, t, class, refuser)
    \/ \E g \in GameIds, sender \in Callers :
          \E refuser \in Refusers(g) : callTimeout(g, sender, refuser)
    \/ Tick

Spec == Init /\ [][Next]_vars

(* --------------------------- reverted calls --------------------------- *)

\* Storage and balance, with the record of the transfers made.
Ledger ==
    [games |-> games, gameCounter |-> gameCounter, balance |-> balance,
     payouts |-> payouts, movesParity |-> movesParity]

\* How many of the transfers ts go through before one fails.
RECURSIVE TransfersDone(_, _, _)
TransfersDone(ts, bal, refuser) ==
    IF ts = <<>> \/ safeTransferError(ts[1].to, ts[1].amount, bal, refuser) # OK
    THEN 0
    ELSE 1 + TransfersDone(Tail(ts), bal - ts[1].amount, refuser)

\* led after the first n of the transfers ts, made for game g.
AfterTransfers(led, g, ts, n) ==
    [led EXCEPT !.balance = @ - TotalOf(SubSeq(ts, 1, n)),
                !.payouts[g] = @ \o SubSeq(ts, 1, n)]

\* The ledger at the point where joinGame stops, at its failing check or at
\* its end: msg.value is credited when the call is entered, the two writes
\* follow the checks.
joinGameReached(g, sender, value) ==
    LET entered == [Ledger EXCEPT !.balance = @ + value]
    IN  IF joinGameError(g, sender, value) # OK THEN entered
        ELSE [entered EXCEPT !.games[g] = joinedGame(games[g], sender, value)]

\* The transfers of the move that went through before it stopped.
moveSent(g, newFen, result, refuser) ==
    TransfersDone(proceedResultTransfers(finishedGame(movedGame(games[g], newFen, now)),
                                         result),
                  balance, refuser)

\* The ledger at the point where move stops: nothing is written before the
\* signature is verified; fen, lastMoveTimestamp and isWhiteTurn are
\* written before proceedResult runs, isActive before the transfers.
moveReached(g, sender, newFen, result, sig, refuser) ==
    LET moved == movedGame(games[g], newFen, now)
        written == [Ledger EXCEPT !.games[g] = moved,
                                  !.movesParity[g] = (@ + 1) % 2]
    IN  IF \/ getActiveGameError(g) # OK
           \/ turnError(games[g], sender) # OK
           \/ verifyMoveError(g, newFen, result, sig) # OK
        THEN Ledger
        ELSE IF result = InProgress \/ ~moved.isActive THEN written
        ELSE AfterTransfers([written EXCEPT !.games[g] = finishedGame(moved)], g,
                            proceedResultTransfers(finishedGame(moved), result),
                            moveSent(g, newFen, result, refuser))

\* The ledger at the point where callTimeout stops: isActive is cleared
\* before the transfer is tried.
callTimeoutReached(g, sender, refuser) ==
    LET cleared == [Ledger EXCEPT !.games[g] = finishedGame(games[g])]
        paid == <<Transfer(callTimeoutRecipient(games[g]), games[g].betAmount,
                           "callTimeout")>>
    IN  IF \/ getActiveGameError(g) # OK
           \/ ~timeoutReached(games[g], now)
           \/ ~(sender = games[g].playerWhite \/ sender = games[g].playerBlack)
        THEN Ledger
        ELSE IF callTimeoutError(g, sender, refuser) # OK THEN cleared
        ELSE AfterTransfers(cleared, g, paid, 1)

\* A failing require, revert or transfer as it would be if it returned
\* from the function instead: what was written and credited up to that
\* point stays; C15 depends on the difference.
Reverted_KeepsWrites(before, reached) == reached

\* require(...), revert InvalidBetAmount(...), .transfer(...): the
\* transaction is rolled back to the ledger it started from.
Reverted(before, reached) == before

\* A call that fails with err at a point where the ledger is reached.
Rejected(fn, err, reached, sent) ==
    /\ err # OK
    /\ games' = Reverted(Ledger, reached).games
    /\ gameCounter' = Reverted(Ledger, reached).gameCounter
    /\ balance' = Reverted(Ledger, reached).balance
    /\ payouts' = Reverted(Ledger, reached).payouts
    /\ movesParity' = Reverted(Ledger, reached).movesParity
    /\ receipt' = [fn |-> fn, error |-> err, sent |-> sent,
                   dirty |-> reached # Ledger]
    /\ UNCHANGED <<now, front>>

joinGameRejected(g, sender, value) ==
    Rejected("joinGame", joinGameError(g, sender, value),
             joinGameReached(g, sender, value), 0)

moveRejected(g, sender, t, class, refuser) ==
    Rejected("move",
             moveError(g, sender, t.newFen, t.result, SigOf(class, g, t), refuser),
             moveReached(g, sender, t.newFen, t.result, SigOf(class, g, t), refuser),
             IF moveReached(g, sender, t.newFen, t.result, SigOf(class, g, t), refuser)
                = Ledger
             THEN 0 ELSE moveSent(g, t.newFen, t.result, refuser))

callTimeoutRejected(g, sender, refuser) ==
    Rejected("callTimeout", callTimeoutError(g, sender, refuser),
             callTimeoutReached(g, sender, refuser), 0)

\* The (_newFen, _result, _signature) and refusing recipient of the move
\* calls of sender on g.  When _getActiveGame or the turn check fails the
\* call reverts before any of them is looked at: one choice stands for all.
MoveArgs(g, sender) ==
    IF getActiveGameError(g) # OK \/ turnError(games[g], sender) # OK
    THEN {[t |-> [prior |-> "start", newFen |-> "a", result |-> InProgress],
           class |-> "exact", refuser |-> Zero]}
    ELSE [t : Legal, class : SigClasses, refuser : Refusers(g)]

RejectedCalls ==
    \/ \E g \in GameIds, sender \in Joiners, value \in Values :
          joinGameRejected(g, sender, value)
    \/ \E g \in GameIds, sender \in Callers :
          \E args \in MoveArgs(g, sender) :
             moveRejected(g, sender, args.t, args.class, args.refuser)
    \/ \E g \in GameIds, sender \in Callers :
          \E refuser \in Refusers(g) : callTimeoutRejected(g, sender, refuser)

\* Every transaction, those that revert included.  A reverted call is
\* followed from the ledgers an accepted one leaves: what it leaves does
\* not depend on the receipt it overwrites.
NextCalls ==
    \/ Next
    \/ receipt = NoReceipt /\ RejectedCalls

SpecCalls == Init /\ [][NextCalls]_vars

(* ------------------------- time without an end ----------------------- *)

\* block.timestamp at the model's horizon: the clock goes on, and every
\* timestamp is counted from one unit later.  Ages of MaxTime and more are
\* not told apart, which no deadline check notices while
\* moveTimeout <= MaxTime.
Rebase ==
    /\ now = MaxTime
    /\ games' = [g \in GameIds |->
                    [games[g] EXCEPT !.lastMoveTimestamp =
                                        IF @ > 0 THEN @ - 1 ELSE 0]]
    /\ UNCHANGED <<gameCounter, balance, now, payouts, movesParity,
                   receipt, front>>

\* The transactions of a ledger whose recipients all take their ether.
NextLive ==
    \/ \E sender \in Creators, value \in Values : newGame(sender, value)
    \/ \E g \in GameIds, sender \in Joiners, value \in Values :
          joinGame(g, sender, value)
    \/ \E g \in GameIds, sender \in Callers :
          /\ getActiveGameError(g) = OK
          /\ turnError(games[g], sender) = OK
          /\ \E t \in Legal, class \in SigClasses : move(g, sender, t, class, Zero)
    \/ \E g \in GameIds, sender \in Callers : callTimeout(g, sender, Zero)
    \/ Tick
    \/ Rebase

\* Blocks keep being mined: time passes.
SpecLive == Init /\ [][NextLive]_vars /\ WF_vars(Tick \/ Rebase)

(* ------------------------- vocabulary of the claims ------------------- *)

\* Ids that newGame has handed out.
Created(g) == g >= 1 /\ g <= gameCounter

\* A session that was created and is no longer active.
Terminal(g) == Created(g) /\ ~games[g].isActive

Joined(g) == Created(g) /\ games[g].playerBlack # Zero

IsParty(g, a) ==
    a = games[g].playerWhite \/ (Joined(g) /\ a = games[g].playerBlack)

\* The step accepted a move on g.
MoveAccepted(g) == movesParity'[g] # movesParity[g]

\* The step made somebody playerBlack of g.
JoinAccepted(g) == games[g].playerBlack = Zero /\ games'[g].playerBlack # Zero

\* The session was ended by callTimeout.
TimedOut(g) == payouts[g] # <<>> /\ payouts[g][1].via = "callTimeout"

(* -------------------------------- C1 ---------------------------------- *)

\* C1: a session's stake leaves the ledger at most once, and in exactly the
\* step that takes the session from active to terminal: a step transfers
\* funds of g iff it ends g, nothing was transferred for g before, and what
\* it transfers is the whole recorded stake.
C1_PayoutExactlyAtFinalization ==
    [][\A g \in GameIds :
          /\ (payouts'[g] # payouts[g]) <=> (games[g].isActive /\ ~games'[g].isActive)
          /\ (payouts'[g] # payouts[g]) =>
                /\ payouts[g] = <<>>
                /\ TotalOf(payouts'[g]) = games[g].betAmount
                /\ balance' = balance - games[g].betAmount]_vars

\* A joined session was ended by a draw: two transfers, together the stake.
C1_Witness ==
    \E g \in GameIds :
        /\ Terminal(g) /\ Joined(g)
        /\ Len(payouts[g]) = 2
        /\ TotalOf(payouts[g]) = games[g].betAmount
        /\ games[g].betAmount > 0

(* -------------------------------- C2 ---------------------------------- *)

\* C2, in each state: every joinGame, move and callTimeout on the id of a
\* terminal session is rejected.
C2_TerminalRejectsEveryCall ==
    \A g \in GameIds : Terminal(g) =>
        /\ \A sender \in Callers, value \in Values :
              joinGameError(g, sender, value) # OK
        /\ \A sender \in Callers, t \in Legal, class \in SigClasses,
              refuser \in Refusers(g) :
              moveError(g, sender, t.newFen, t.result, SigOf(class, g, t), refuser) # OK
        /\ \A sender \in Callers, refuser \in Refusers(g) :
              callTimeoutError(g, sender, refuser) # OK

\* C2, whole: the rejections above hold in every state, and no step
\* changes the record or the payouts of a terminal session.
C2_TerminalIsFrozen ==
    /\ []C2_TerminalRejectsEveryCall
    /\ [][\A g \in GameIds : Terminal(g) =>
             /\ games'[g] = games[g]
             /\ payouts'[g] = payouts[g]]_vars

\* A terminal two-party session whose deadline has passed: only the
\* isActive check stands between its creator and a second callTimeout.
C2_Witness ==
    \E g \in GameIds :
        /\ Terminal(g) /\ Joined(g)
        /\ timeoutReached(games[g], now)
        /\ callTimeoutError(g, games[g].playerWhite, Zero) = "Game is not active"

(* -------------------------------- C3 ---------------------------------- *)

\* C3: a move is accepted only with an attestation of a transition from the
\* session's current position: the position before an accepted move is the
\* prior position of the attested transition to the new one.
C3_AttestationBoundToPriorState ==
    [][\A g \in GameIds : MoveAccepted(g) =>
          \E t \in Legal : t.prior = games[g].fen /\ t.newFen = games'[g].fen]_vars

(* -------------------------------- C4 ---------------------------------- *)

\* C4: a move by anybody but the party holding the turn is rejected,
\* whatever it carries, the oracle's attestation of that very move included.
C4_OnlyTurnHolderMoves ==
    \A g \in GameIds, sender \in Callers, t \in Legal, class \in SigClasses :
        \A refuser \in Refusers(g) :
            sender # TurnHolder(games[g]) =>
                moveError(g, sender, t.newFen, t.result, SigOf(class, g, t), refuser) # OK

\* In a running two-party session the party out of turn presents the
\* oracle's attestation of a legal move from the current position.
C4_Witness ==
    \E g \in GameIds, sender \in Callers, t \in Legal :
        /\ games[g].isActive /\ Joined(g) /\ IsParty(g, sender)
        /\ sender # TurnHolder(games[g])
        /\ t.prior = games[g].fen
        /\ verifyMoveError(g, t.newFen, t.result, SigOf("exact", g, t)) = OK
        /\ moveError(g, sender, t.newFen, t.result, SigOf("exact", g, t), Zero)
              = "Not your turn"

(* -------------------------------- C5 ---------------------------------- *)

\* C5: a move whose signature is not the oracle's signature over the
\* submitted (game id, new position, result) is rejected, also when the
\* caller holds the turn.
C5_OnlyOracleSignedMoves ==
    \A g \in GameIds, sender \in Callers, t \in Legal :
        \A class \in SigClasses \ {"exact"}, refuser \in Refusers(g) :
            moveError(g, sender, t.newFen, t.result, SigOf(class, g, t), refuser) # OK

\* The turn holder of a running session is turned away for every kind of
\* signature that is not the oracle's over the submitted move.
C5_Witness ==
    \E g \in GameIds, t \in Legal :
        /\ games[g].isActive /\ Joined(g)
        /\ t.prior = games[g].fen
        /\ \A class \in {"otherGame", "otherMove", "forged"} :
              moveError(g, TurnHolder(games[g]), t.newFen, t.result,
                        SigOf(class, g, t), Zero) = "Invalid signature"
        /\ moveError(g, TurnHolder(games[g]), t.newFen, t.result,
                     SigOf("short", g, t), Zero) = "invalid signature length"

(* -------------------------------- C6 ---------------------------------- *)

\* C6, in each state: the turn is partyA's iff the number of accepted
\* moves is even.
C6_TurnIsParityOfMoves ==
    \A g \in GameIds : Created(g) =>
        /\ games[g].isWhiteTurn <=> (movesParity[g] = 0)
        /\ (TurnHolder(games[g]) = games[g].playerWhite) <=> (movesParity[g] = 0)

\* C6, whole: the parity law above holds in every state; a step changes
\* the turn of an existing session iff it accepts a move on it; and the
\* step that creates a session gives the turn to partyA.
C6_TurnFlipsOnlyOnMoves ==
    /\ []C6_TurnIsParityOfMoves
    /\ [][\A g \in GameIds :
             /\ Created(g) =>
                   ((games'[g].isWhiteTurn # games[g].isWhiteTurn) <=> MoveAccepted(g))
             /\ (~Created(g) /\ games'[g] # games[g]) =>
                   (games'[g].isWhiteTurn /\ movesParity'[g] = 0)]_vars

\* Two moves were accepted in a two-party session (white's, then black's
\* from position "a") and the turn is back with partyA.
C6_Witness ==
    \E g \in GameIds :
        /\ Joined(g) /\ games[g].isActive
        /\ games[g].fen = "b" /\ movesParity[g] = 0
        /\ TurnHolder(games[g]) = games[g].playerWhite

(* -------------------------------- C7 ---------------------------------- *)

\* C7: joining sets lastMoveTimestamp to the time of the join, and in the
\* state the join leaves (no time has passed since it, less than
\* moveTimeout) no callTimeout on the session succeeds.
C7_JoinRestartsTheClock ==
    [][\A g \in GameIds : JoinAccepted(g) =>
          /\ games'[g].lastMoveTimestamp = now'
          /\ \A sender \in Callers, refuser \in Refusers(g) :
                (callTimeoutError(g, sender, refuser) # OK)']_vars

(* -------------------------------- C8 ---------------------------------- *)

\* C8: while now - lastMoveTimestamp < moveTimeout, callTimeout fails for
\* every caller, whatever the state of the session.
C8_NoTimeoutBeforeDeadline ==
    \A g \in GameIds, sender \in Callers :
        \A refuser \in Refusers(g) :
            now - games[g].lastMoveTimestamp < moveTimeout =>
                callTimeoutError(g, sender, refuser) # OK

\* A party of a running two-party session calls before the deadline, and
\* the deadline is all that stops the call.
C8_Witness ==
    \E g \in GameIds, sender \in Callers :
        /\ games[g].isActive /\ Joined(g) /\ IsParty(g, sender)
        /\ now - games[g].lastMoveTimestamp < moveTimeout
        /\ callTimeoutError(g, sender, Zero) = "Move timeout not reached"

(* -------------------------------- C9 ---------------------------------- *)

\* What a timeout decided: the role that was paid, and whether it was paid
\* the whole stake.
TimeoutOutcome(g) ==
    <<IF payouts[g][1].to = games[g].playerWhite THEN "white" ELSE "black",
      Len(payouts[g]) = 1 /\ payouts[g][1].amount = games[g].betAmount>>

\* What C9 lets the outcome depend on.
TimeoutCase(g) ==
    <<games[g].playerBlack # Zero, games[g].fen = startingFEN, games[g].isWhiteTurn>>

\* C9: from the deadline on (now - lastMoveTimestamp = moveTimeout
\* included) callTimeout by partyA or partyB on an active session succeeds
\* unless the payout is refused; it leaves the session terminal; and two
\* sessions ended by timeout in the same case (second party joined?,
\* position initial?, turn) have the same outcome.
C9_TimeoutSucceedsFromDeadline ==
    /\ \A g \in GameIds, sender \in Callers :
          (/\ games[g].isActive
           /\ IsParty(g, sender)
           /\ now - games[g].lastMoveTimestamp >= moveTimeout)
          => \A refuser \in Refusers(g) :
                (refuser = Zero \/ refuser # callTimeoutRecipient(games[g]))
                => callTimeoutError(g, sender, refuser) = OK
    /\ \A g \in GameIds : TimedOut(g) => Terminal(g)
    /\ \A g, h \in GameIds :
          (TimedOut(g) /\ TimedOut(h) /\ TimeoutCase(g) = TimeoutCase(h))
          => TimeoutOutcome(g) = TimeoutOutcome(h)

\* One session was timed out exactly at its deadline and another, in the
\* same case, later than its deadline.
C9_Witness ==
    \E g, h \in GameIds :
        /\ g # h /\ TimedOut(g) /\ TimedOut(h)
        /\ TimeoutCase(g) = TimeoutCase(h)
        /\ now = games[g].lastMoveTimestamp + moveTimeout
        /\ now > games[h].lastMoveTimestamp + moveTimeout

(* -------------------------------- C10 --------------------------------- *)

\* C10: a callTimeout that succeeds on a session nobody joined sends the
\* whole stake to partyA, the creator.
C10_UnjoinedTimeoutRefundsCreator ==
    \A g \in GameIds :
        (TimedOut(g) /\ games[g].playerBlack = Zero) =>
            payouts[g] = <<Transfer(games[g].playerWhite, games[g].betAmount,
                                    "callTimeout")>>

(* -------------------------------- C11 --------------------------------- *)

\* What the transfers ts send to address a, in total.
RECURSIVE PaidTo(_, _)
PaidTo(ts, a) ==
    IF ts = <<>> THEN 0
    ELSE (IF ts[1].to = a THEN ts[1].amount ELSE 0) + PaidTo(Tail(ts), a)

\* C11: a callTimeout that succeeds on a joined session still at the
\* initial position (no move accepted) ends it as a draw: partyA and
\* partyB each receive half of the stake, and neither the whole of it.
C11_StallTimeoutIsDraw ==
    \A g \in GameIds :
        (TimedOut(g) /\ Joined(g) /\ games[g].fen = startingFEN
                     /\ movesParity[g] = 0) =>
            /\ PaidTo(payouts[g], games[g].playerWhite) = games[g].betAmount \div 2
            /\ PaidTo(payouts[g], games[g].playerBlack) = games[g].betAmount \div 2

(* -------------------------------- C12 --------------------------------- *)

\* The party that does not hold the turn.
OtherParty(game) ==
    IF game.isWhiteTurn THEN game.playerBlack ELSE game.playerWhite

\* C12: a callTimeout by either party that succeeds on a joined session
\* away from the initial position (a move was accepted) sends the whole
\* stake in one transfer to the party that does not hold the turn, and
\* nothing to the turn holder.
C12_TurnHolderForfeitsOnTimeout ==
    [][\A g \in GameIds, sender \in Callers : \A refuser \in Refusers(g) :
          (/\ Joined(g)
           /\ games[g].fen # startingFEN
           /\ callTimeout(g, sender, refuser))
          => /\ IsParty(g, sender)
             /\ payouts'[g] = <<Transfer(OtherParty(games[g]), games[g].betAmount,
                                         "callTimeout")>>
             /\ OtherParty(games[g]) # TurnHolder(games[g])
             /\ OtherParty(games[g]) \in {games[g].playerWhite, games[g].playerBlack}
             /\ balance' = balance - games[g].betAmount
             /\ Terminal(g)']_vars

\* Two joined sessions with accepted moves were ended by timeout, one on
\* partyA's turn (partyB was paid) and one on partyB's (partyA was paid).
C12_Witness ==
    \E g, h \in GameIds :
        /\ TimedOut(g) /\ Joined(g) /\ games[g].fen # startingFEN
        /\ TimedOut(h) /\ Joined(h) /\ games[h].fen # startingFEN
        /\ games[g].isWhiteTurn /\ payouts[g][1].to = games[g].playerBlack
        /\ ~games[h].isWhiteTurn /\ payouts[h][1].to = games[h].playerWhite
        /\ games[g].betAmount > 0 /\ games[h].betAmount > 0

(* -------------------------------- C13 --------------------------------- *)

\* C13: joinGame goes through only on a session that waits for an
\* opponent (created, active, no second party, no move accepted), for a
\* caller other than partyA, with a deposit equal to the recorded one.
C13_JoinOnlyWhileWaiting ==
    \A g \in GameIds, sender \in Callers, value \in Values :
        joinGameError(g, sender, value) = OK =>
            /\ Created(g) /\ games[g].isActive
            /\ games[g].playerBlack = Zero
            /\ games[g].fen = startingFEN /\ movesParity[g] = 0
            /\ sender # games[g].playerWhite
            /\ value = games[g].betAmount

(* -------------------------------- C14 --------------------------------- *)

\* C14: a move is accepted only between the join of a second party and the
\* end of the session; on a session nobody has joined every move is
\* rejected, the creator's with the oracle's attestation included.
C14_NoMoveBeforeJoin ==
    \A g \in GameIds, sender \in Callers, t \in Legal, class \in SigClasses :
        \A refuser \in Refusers(g) :
            ~(Joined(g) /\ games[g].isActive) =>
                moveError(g, sender, t.newFen, t.result, SigOf(class, g, t), refuser) # OK

(* -------------------------------- C18 --------------------------------- *)

\* The party a win result names.
Winner(game, result) ==
    IF result = WhiteWon THEN game.playerWhite ELSE game.playerBlack

Loser(game, result) ==
    IF result = WhiteWon THEN game.playerBlack ELSE game.playerWhite

\* C18: an accepted move with a win result sends the whole stake, in one
\* transfer, to the party the result names, whoever submitted the move,
\* and nothing to the other party.
C18_WinPaysTheNamedParty ==
    [][\A g \in GameIds : MoveAccepted(g) =>
         \A sender \in Callers, t \in Legal, class \in SigClasses,
            refuser \in Refusers(g) :
          (t.result \in {WhiteWon, BlackWon} /\ move(g, sender, t, class, refuser))
          => /\ payouts'[g] = <<Transfer(Winner(games[g], t.result),
                                         games[g].betAmount, "move")>>
             /\ PaidTo(payouts'[g], Winner(games[g], t.result)) = games[g].betAmount
             /\ Loser(games[g], t.result) # Winner(games[g], t.result)
             /\ PaidTo(payouts'[g], Loser(games[g], t.result)) = 0
             /\ balance' = balance - games[g].betAmount]_vars

\* Two joined sessions with stakes 1 + 1 ended with "A wins": in one the
\* move was partyB's (the turn came back to partyA), in the other
\* partyA's; A received 2 and B nothing in both.
C18_Witness ==
    \E g, h \in GameIds :
        /\ Terminal(g) /\ Joined(g) /\ games[g].fen = "wm" /\ games[g].isWhiteTurn
        /\ Terminal(h) /\ Joined(h) /\ games[h].fen = "wm" /\ ~games[h].isWhiteTurn
        /\ \A k \in {g, h} :
              /\ games[k].betAmount = 2
              /\ PaidTo(payouts[k], games[k].playerWhite) = 2
              /\ PaidTo(payouts[k], games[k].playerBlack) = 0

(* -------------------------------- C19 --------------------------------- *)

\* C19: an accepted move with the draw result sends partyA and partyB
\* each exactly half of the stake, which the two halves use up.
C19_DrawPaysHalfEach ==
    [][\A g \in GameIds : MoveAccepted(g) =>
         \A sender \in Callers, t \in Legal, class \in SigClasses,
            refuser \in Refusers(g) :
          (t.result = Draw /\ move(g, sender, t, class, refuser))
          => /\ Joined(g)
             /\ payouts'[g] = <<Transfer(games[g].playerWhite,
                                         games[g].betAmount \div 2, "move"),
                                Transfer(games[g].playerBlack,
                                         games[g].betAmount \div 2, "move")>>
             /\ 2 * (games[g].betAmount \div 2) = games[g].betAmount
             /\ PaidTo(payouts'[g], games[g].playerWhite) = games[g].betAmount \div 2
             /\ PaidTo(payouts'[g], games[g].playerBlack) = games[g].betAmount \div 2
             /\ balance' = balance - games[g].betAmount]_vars

\* A session with stakes 1 + 1 ended by a move with the draw result: each
\* party received 1.
C19_Witness ==
    \E g \in GameIds :
        /\ Terminal(g) /\ games[g].fen = "dr" /\ games[g].betAmount = 2
        /\ PaidTo(payouts[g], games[g].playerWhite) = 1
        /\ PaidTo(payouts[g], games[g].playerBlack) = 1
        /\ payouts[g][1].via = "move"

(* -------------------------------- C20 --------------------------------- *)

\* C20: an accepted move with result InProgress flips the turn and does
\* not end the session: it stays active, nothing is transferred, and the
\* ledger's balance is what it was.
C20_InProgressMoveDoesNotFinalize ==
    [][\A g \in GameIds : MoveAccepted(g) =>
         \A sender \in Callers, t \in Legal, class \in SigClasses,
            refuser \in Refusers(g) :
          (t.result = InProgress /\ move(g, sender, t, class, refuser))
          => /\ games'[g].isWhiteTurn = ~games[g].isWhiteTurn
             /\ games'[g].isActive
             /\ games'[g].betAmount = games[g].betAmount
             /\ payouts' = payouts
             /\ balance' = balance]_vars

\* In a joined session with stakes 1 + 1 partyA's first move (result
\* InProgress) was accepted: the turn is partyB's, the session is active
\* and the ledger still holds the stake.
C20_Witness ==
    \E g \in GameIds :
        /\ Joined(g) /\ games[g].isActive
        /\ games[g].fen = "a" /\ movesParity[g] = 1 /\ ~games[g].isWhiteTurn
        /\ games[g].betAmount = 2 /\ balance >= 2
        /\ payouts[g] = <<>>

(* -------------------------------- C15 --------------------------------- *)

\* C15: a step in which a joinGame, move or callTimeout is rejected leaves
\* every session record, the session counter, the contract's balance and
\* the record of transfers exactly as they were.
C15_RejectedCallChangesNothing ==
    [][(receipt = NoReceipt /\ receipt'.error # OK) =>
          /\ receipt'.fn \in {"joinGame", "move", "callTimeout"}
          /\ games' = games
          /\ gameCounter' = gameCounter
          /\ balance' = balance
          /\ payouts' = payouts
          /\ movesParity' = movesParity]_vars

\* A joinGame that sent 1 to a waiting session whose recorded deposit is 0
\* was rejected after the 1 had been credited: the ledger holds no more
\* than before.
C15_Witness ==
    /\ receipt.fn = "joinGame" /\ receipt.error = "InvalidBetAmount"
    /\ receipt.dirty
    /\ balance = 0
    /\ \E g \in GameIds :
          /\ games[g].isActive /\ games[g].playerBlack = Zero
          /\ games[g].betAmount = 0

(* -------------------------------- C16 --------------------------------- *)

\* The revert reasons of a payout that could not be made.
TransferFailures ==
    {"Invalid recipient", "Ether transfer failed via call", "transfer failed"}

\* C16, in each state: a finalizing call one of whose payouts the recipient
\* refuses fails with a transfer failure, be it a terminal move with the
\* oracle's attestation by the turn holder or a due callTimeout by a party.
C16_RefusedPayoutFailsTheCall ==
    \A g \in GameIds, sender \in Callers :
        \A refuser \in Refusers(g) \ {Zero} :
            /\ \A t \in Legal :
                  (/\ getActiveGameError(g) = OK
                   /\ turnError(games[g], sender) = OK
                   /\ t.result # InProgress
                   /\ \E i \in DOMAIN proceedResultTransfers(games[g], t.result) :
                         proceedResultTransfers(games[g], t.result)[i].to = refuser)
                  => moveError(g, sender, t.newFen, t.result,
                               SigOf("exact", g, t), refuser) \in TransferFailures
            /\ (/\ getActiveGameError(g) = OK
                /\ timeoutReached(games[g], now)
                /\ IsParty(g, sender)
                /\ callTimeoutRecipient(games[g]) = refuser)
               => callTimeoutError(g, sender, refuser) \in TransferFailures

\* C16, whole: the above holds in every state, and the step of a call that
\* fails on a payout, after the move's writes, the clearing of isActive and
\* possibly a first transfer, leaves every session as it was (active, with
\* its position, turn and lastMoveTimestamp), and the balance and the
\* transfers made as they were.
C16_FailedPayoutAbortsTheCall ==
    /\ []C16_RefusedPayoutFailsTheCall
    /\ [][(receipt = NoReceipt /\ receipt'.error \in TransferFailures) =>
             /\ receipt'.dirty
             /\ games' = games
             /\ balance' = balance
             /\ payouts' = payouts
             /\ movesParity' = movesParity
             /\ gameCounter' = gameCounter]_vars

\* A move with the draw result on a joined session with stakes 1 + 1 was
\* rejected at its second transfer, after the first had gone through: the
\* session is active, nothing was paid for it and the ledger holds its
\* stake.
C16_Witness ==
    /\ receipt.fn = "move" /\ receipt.error = "Ether transfer failed via call"
    /\ receipt.sent = 1 /\ receipt.dirty
    /\ gameCounter = 1
    /\ Joined(1) /\ games[1].isActive
    /\ games[1].betAmount = 2 /\ balance = 2 /\ payouts[1] = <<>>

(* -------------------------------- C17 --------------------------------- *)

\* Some move call of party h goes through.
MoveBy(h) ==
    \E g \in GameIds, t \in Legal, class \in SigClasses : move(g, h, t, class, Zero)

\* Every session, once joined and active, is at some later time terminal
\* with its whole stake paid out.
EveryJoinedSessionEnds ==
    \A g \in 1..MaxGames :
        [](( Joined(g) /\ games[g].isActive) =>
              <>(Terminal(g) /\ TotalOf(payouts[g]) = games[g].betAmount))

\* C17: let h be either party, and let h from some time on make no move
\* (it obtains no attestation) but send callTimeout when the call stays
\* open to it.  Whatever the other party does or omits, every joined
\* session becomes terminal with its stake paid out, no payout being
\* refused: the other party cannot keep the session active alone.
C17_EitherPartyCanEndTheSession ==
    \A h \in Creators \cup Joiners :
        (/\ <>[][~MoveBy(h)]_vars
         /\ \A g \in 1..MaxGames : WF_vars(callTimeout(g, h, Zero)))
        => EveryJoinedSessionEnds

\* A joined session with stakes 1 + 1 in which one move was accepted and
\* the party then on turn sent nothing more was ended by callTimeout, and
\* the stake of 2 was paid out.
C17_Witness ==
    \E g \in GameIds :
        /\ TimedOut(g) /\ Joined(g) /\ Terminal(g)
        /\ movesParity[g] = 1
        /\ games[g].betAmount = 2 /\ TotalOf(payouts[g]) = 2
        /\ now > games[g].lastMoveTimestamp

(* -------------------------------- C21 --------------------------------- *)

\* C21: an accepted joinGame records the caller as partyB, makes the
\* recorded stake exactly twice the creator's deposit, and leaves the
\* session in progress (active, two parties) with the turn with partyA.
C21_JoinStartsTheSessionOnWhitesTurn ==
    [][\A g \in GameIds, sender \in Joiners, value \in Values :
          joinGame(g, sender, value) =>
              /\ games'[g].playerBlack = sender
              /\ games'[g].betAmount = 2 * games[g].betAmount
              /\ games'[g].isActive /\ Joined(g)'
              /\ TurnHolder(games'[g]) = games'[g].playerWhite]_vars

\* What joinGame does write: the second party and the doubled stake, on a
\* session that stays active, with every other field as it was.
C21_JoinWritesPartyAndStake ==
    [][\A g \in GameIds, sender \in Joiners, value \in Values :
          joinGame(g, sender, value) =>
              /\ games'[g].playerBlack = sender
              /\ games'[g].betAmount = 2 * games[g].betAmount
              /\ games'[g].isActive /\ Joined(g)'
              /\ games'[g].isWhiteTurn = games[g].isWhiteTurn]_vars

(* -------------------------------- C22 --------------------------------- *)

\* C22: session ids are the integers 1, 2, 3, ... in the order of the
\* accepted newGame calls: the k-th one writes the record of id k into a
\* slot nothing was written to before, the ids handed out are exactly
\* 1..gameCounter, and no later step of any operation changes the id or the
\* creator of a record or takes an id back.
C22_IdsAreDenseAndNeverReused ==
    /\ [](\A g \in GameIds :
            IF Created(g)
            THEN games[g].gameId = g /\ games[g].playerWhite # Zero
            ELSE games[g] = NoGame)
    /\ [][/\ gameCounter' >= gameCounter
          /\ gameCounter' # gameCounter =>
                /\ gameCounter' = gameCounter + 1
                /\ games[gameCounter'] = NoGame
                /\ games'[gameCounter'].gameId = gameCounter'
                /\ \A g \in GameIds \ {gameCounter'} : games'[g] = games[g]
          /\ \A g \in GameIds :
                Created(g) => /\ games'[g].gameId = games[g].gameId
                              /\ games'[g].playerWhite = games[g].playerWhite]_vars

\* Two sessions exist, the second one created after the first was joined,
\* played and ended.
C22_Witness ==
    /\ gameCounter = 2
    /\ games[1].gameId = 1 /\ games[2].gameId = 2
    /\ Joined(1) /\ Terminal(1) /\ movesParity[1] > 0
    /\ games[2].isActive /\ games[2].lastMoveTimestamp > games[1].lastMoveTimestamp

(* -------------------------------- C23 --------------------------------- *)

\* The record says the session waits for an opponent: created, active, no
\* second party, initial position, no move accepted.
Waiting(g) ==
    /\ Created(g) /\ games[g].isActive /\ games[g].playerBlack = Zero
    /\ games[g].fen = startingFEN /\ movesParity[g] = 0

\* C23: an accepted newGame creates a session with partyA = the caller, no
\* partyB, the initial position, the turn with partyA, stake = the caller's
\* deposit (taken into the ledger's balance), lastActivityTime = now, and
\* waiting for an opponent: not joined yet, and a join by anybody else with
\* the same deposit would go through.
C23_NewGameCreatesAWaitingSession ==
    [][\A sender \in Creators, value \in Values, id \in GameIds :
          newGame(sender, value) /\ id = gameCounter + 1 =>
              /\ gameCounter' = id /\ games'[id].gameId = id
              /\ games'[id].playerWhite = sender
              /\ games'[id].playerBlack = Zero
              /\ games'[id].fen = startingFEN
              /\ TurnHolder(games'[id]) = sender
              /\ games'[id].betAmount = value
              /\ balance' = balance + value
              /\ games'[id].lastMoveTimestamp = now
              /\ Waiting(id)' /\ ~Joined(id)'
              /\ \A j \in Callers \ {sender} :
                    joinGameError(id, j, value)' = OK]_vars

\* A session created with a deposit at a time later than 0 and untouched
\* since.
C23_Witness ==
    /\ Created(2) /\ Waiting(2)
    /\ games[2].playerWhite = "A" /\ games[2].betAmount = 1
    /\ now > 0 /\ games[2].lastMoveTimestamp = now

(* -------------------------------- C24 --------------------------------- *)

\* C24: callTimeout sent by an identity that is neither partyA nor partyB
\* of the session is rejected in every reachable state, whether or not
\* anybody has joined; once the deadline of an active session has passed
\* it is rejected for that reason and no other.
C24_OutsiderCannotCallTimeout ==
    \A g \in GameIds, sender \in Callers :
        \A refuser \in Refusers(g) :
            ~IsParty(g, sender) =>
                /\ callTimeoutError(g, sender, refuser) # OK
                /\ (Created(g) /\ games[g].isActive
                        /\ timeoutReached(games[g], now)) =>
                     callTimeoutError(g, sender, refuser) =
                         "Only players can call timeout"

\* The deadline of a joined session with a stake has passed: a party's
\* callTimeout would go through, the outsider's is rejected.
C24_Witness ==
    \E g \in GameIds :
        /\ Joined(g) /\ games[g].isActive /\ games[g].betAmount > 0
        /\ timeoutReached(games[g], now)
        /\ ~IsParty(g, "C")
        /\ callTimeoutError(g, games[g].playerWhite, Zero) = OK
        /\ callTimeoutError(g, games[g].playerBlack, Zero) = OK
        /\ callTimeoutError(g, "C", Zero) = "Only players can call timeout"

(* -------------------------------- C25 --------------------------------- *)

\* C25: the recorded stake of a session is zero in every terminal state;
\* it is the creator's deposit until the join, twice that from the join to
\* the end, and is set to zero in the step that ends the session.
C25_StakeIsZeroOnceTerminal ==
    \A g \in GameIds : Terminal(g) => games[g].betAmount = 0

\* The stake while the session is active: what the parties have paid in.
C25_StakeWhileActive ==
    [][\A g \in GameIds :
          /\ (Created(g) /\ games[g].isActive /\ games'[g].isActive) =>
                games'[g].betAmount =
                    IF JoinAccepted(g) THEN 2 * games[g].betAmount
                    ELSE games[g].betAmount
          /\ (Created(g) /\ games[g].isActive /\ ~games'[g].isActive) =>
                games'[g].betAmount = games[g].betAmount]_vars

(* -------------------------------- C28 --------------------------------- *)

\* What a move that is rejected leaves of the ledger it reached.
RejectedMoveLeaves(g, sender, t, class, refuser) ==
    Reverted(Ledger, moveReached(g, sender, t.newFen, t.result,
                                 SigOf(class, g, t), refuser))

\* C28: an accepted move sets the session's position to the submitted one
\* and lastActivityTime to the current time, so that from then on the
\* deadline counts from that move (no callTimeout goes through at the
\* time of the move); no other step on an existing session, a callTimeout
\* included, changes lastActivityTime, and a rejected move leaves it as it
\* was, wherever the move was stopped.
C28_ClockRestartsOnAcceptedMovesOnly ==
    /\ [](\A g \in GameIds, sender \in Callers, t \in Legal,
             class \in SigClasses :
             \A refuser \in Refusers(g) :
                moveError(g, sender, t.newFen, t.result, SigOf(class, g, t),
                          refuser) # OK =>
                    RejectedMoveLeaves(g, sender, t, class, refuser).games[g].lastMoveTimestamp
                        = games[g].lastMoveTimestamp)
    /\ [][\A g \in GameIds :
            /\ MoveAccepted(g) =>
                  \A sender \in Callers :
                    \* move's turn require, before its arguments are enumerated
                    turnError(games[g], sender) = OK =>
                      \A t \in Legal, class \in SigClasses,
                         refuser \in Refusers(g) :
                        move(g, sender, t, class, refuser) =>
                            /\ games'[g].fen = t.newFen
                            /\ games'[g].lastMoveTimestamp = now
                            /\ ~timeoutReached(games'[g], now)
                            /\ \A s \in Callers :
                                  (callTimeoutError(g, s, Zero) # OK)'
            /\ (Created(g) /\ ~MoveAccepted(g)) =>
                  games'[g].lastMoveTimestamp = games[g].lastMoveTimestamp]_vars

\* After an accepted move on a joined session time has passed, and a
\* finishing move sent now is stopped at its payout, after it has written
\* the position and the current time, and leaves the older time.
C28_Witness ==
    \E g \in GameIds, sender \in Callers, t \in Legal :
        \E refuser \in Refusers(g) :
            /\ Joined(g) /\ games[g].isActive /\ movesParity[g] = 1
            /\ games[g].lastMoveTimestamp < now
            /\ moveError(g, sender, t.newFen, t.result, SigOf("exact", g, t),
                         refuser) \in TransferFailures
            /\ moveReached(g, sender, t.newFen, t.result, SigOf("exact", g, t),
                           refuser).games[g].lastMoveTimestamp = now
            /\ RejectedMoveLeaves(g, sender, t, "exact", refuser).games[g].lastMoveTimestamp
                   < now

(* -------------------------------- C29 --------------------------------- *)

\* C29: an identity that is not a party of a session cannot change it or
\* move its funds, except by a valid joinGame that makes it partyB: its
\* move and its callTimeout are rejected in every reachable state, its
\* accepted joinGame writes partyB = the caller and adds the caller's
\* deposit to the stake and nothing else, and every step that changes an
\* existing session or pays from it is such a join or a move or callTimeout
\* on that session by one of its parties.
C29_OutsidersCannotTouchASession ==
    /\ [](\A g \in GameIds, sender \in Callers :
            ~IsParty(g, sender) =>
                /\ \A t \in Legal, class \in SigClasses :
                      \A refuser \in Refusers(g) :
                         moveError(g, sender, t.newFen, t.result,
                                   SigOf(class, g, t), refuser) # OK
                /\ \A refuser \in Refusers(g) :
                      callTimeoutError(g, sender, refuser) # OK)
    /\ [][\A g \in GameIds :
            (Created(g) /\ (games'[g] # games[g] \/ payouts'[g] # payouts[g])) =>
                \E sender \in Callers :
                    \/ /\ ~IsParty(g, sender)
                       /\ \E value \in Values : joinGame(g, sender, value)
                       /\ games'[g] = [games[g] EXCEPT
                                          !.playerBlack = sender,
                                          !.betAmount = 2 * @]
                       /\ payouts'[g] = payouts[g] /\ balance' >= balance
                    \/ /\ IsParty(g, sender)
                       /\ turnError(games[g], sender) = OK
                       /\ \E t \in Legal, class \in SigClasses,
                             refuser \in Refusers(g) :
                              move(g, sender, t, class, refuser)
                    \/ /\ IsParty(g, sender)
                       /\ \E refuser \in Refusers(g) :
                              callTimeout(g, sender, refuser)]_vars

\* The deadline of a joined session with a stake has passed and the
\* turn-holder has an attested move: the turn-holder's move and callTimeout
\* would go through, the same calls sent by the outsider are rejected.
C29_Witness ==
    \E g \in GameIds, t \in Legal :
        /\ Joined(g) /\ games[g].isActive /\ games[g].betAmount > 0
        /\ ~IsParty(g, "C")
        /\ moveError(g, TurnHolder(games[g]), t.newFen, t.result,
                     SigOf("exact", g, t), Zero) = OK
        /\ moveError(g, "C", t.newFen, t.result,
                     SigOf("exact", g, t), Zero) = "Not your turn"
        /\ callTimeoutError(g, TurnHolder(games[g]), Zero) = OK
        /\ callTimeoutError(g, "C", Zero) # OK

(* -------------------------------- C30 --------------------------------- *)

\* C30: every payout of a session's stake, by a finishing move or by
\* callTimeout, before or after the join, goes to partyA or to the partyB
\* that joined: never to the absent second party (the zero address) and
\* never to a third identity.
C30_PayoutsGoToPartiesOnly ==
    \A g \in GameIds :
        \A i \in DOMAIN payouts[g] : IsParty(g, payouts[g][i].to)

\* The payouts of finishing moves do go to parties only: _safeTransfer
\* refuses the zero address.
C30_MovePayoutsGoToPartiesOnly ==
    \A g \in GameIds :
        \A i \in DOMAIN payouts[g] :
            payouts[g][i].via = "move" => IsParty(g, payouts[g][i].to)

(* ----------- the ledger behind the newer front-end (sessions) ---------- *)

\* The newer front-end talks to a revision of the contract whose source is
\* not in the repository: its ABI declares cancelGame, offerDraw and
\* acceptDraw and a Game with isDrawOffered and a status in place of
\* isActive. The declarations and the front-end's availability rules are
\* modelled from the front-end; the behaviour of the operations is modelled
\* from sections 3 and 4 of the specification. Payouts are taken to go
\* through.

\* The status codes as the front-end reads them; 0..3 are move's result
\* codes.
Cancelled == 4
WaitingForOpponent == 5

\* A slot of the revision's games mapping nothing was written to.
NoSession ==
    [gameId |-> 0, playerWhite |-> Zero, playerBlack |-> Zero, fen |-> "",
     lastMoveTimestamp |-> 0, betAmount |-> 0, isWhiteTurn |-> FALSE,
     isDrawOffered |-> FALSE, status |-> 0]

InitSessions ==
    /\ games = [g \in GameIds |-> NoSession]
    /\ gameCounter = 0
    /\ balance = 0
    /\ now = 0
    /\ payouts = [g \in GameIds |-> <<>>]
    /\ movesParity = [g \in GameIds |-> 0]
    /\ receipt = NoReceipt
    /\ front = FrontLoaded

\* createSession: a new id, partyA = the caller, the deposit, the initial
\* position, the turn with partyA, waiting for an opponent.
createSession(sender, value) ==
    /\ gameCounter < MaxGames
    /\ gameCounter' = gameCounter + 1
    /\ games' = [games EXCEPT ![gameCounter + 1] =
                    [gameId |-> gameCounter + 1, playerWhite |-> sender,
                     playerBlack |-> Zero, fen |-> startingFEN,
                     lastMoveTimestamp |-> now, betAmount |-> value,
                     isWhiteTurn |-> TRUE, isDrawOffered |-> FALSE,
                     status |-> WaitingForOpponent]]
    /\ balance' = balance + value
    /\ UNCHANGED <<now, payouts, movesParity, receipt, front>>

joinSessionError(g, sender, value) ==
    IF ~Created(g) \/ games[g].status # WaitingForOpponent THEN "StateError"
    ELSE IF sender = games[g].playerWhite \/ value # games[g].betAmount
         THEN "ValidationError"
    ELSE OK

\* joinSession: partyB = the caller, the stake grows by the deposit, the
\* clock restarts, the session is in progress.
joinSession(g, sender, value) ==
    /\ joinSessionError(g, sender, value) = OK
    /\ games' = [games EXCEPT ![g] =
                    [@ EXCEPT !.playerBlack = sender,
                              !.betAmount = @ + value,
                              !.lastMoveTimestamp = now,
                              !.status = InProgress]]
    /\ balance' = balance + value
    /\ UNCHANGED <<gameCounter, now, payouts, movesParity, receipt, front>>

\* finalize: the terminal status, the stake down to zero, the offer cleared.
finalizedSession(session, status) ==
    [session EXCEPT !.status = status, !.betAmount = 0,
                    !.isDrawOffered = FALSE]

\* A step that finalizes session g as moved, with the transfers paid.
finalize(g, moved, status, paid) ==
    /\ games' = [games EXCEPT ![g] = finalizedSession(moved, status)]
    /\ balance' = balance - TotalOf(paid)
    /\ payouts' = [payouts EXCEPT ![g] = payouts[g] \o paid]

cancelSessionError(g, sender) ==
    IF ~Created(g) \/ games[g].status # WaitingForOpponent THEN "StateError"
    ELSE IF sender # games[g].playerWhite THEN "AuthorizationError"
    ELSE OK

\* cancelSession: the full stake back to partyA, the session Cancelled.
cancelSession(g, sender) ==
    /\ cancelSessionError(g, sender) = OK
    /\ finalize(g, games[g], Cancelled,
                <<Transfer(games[g].playerWhite, games[g].betAmount, "cancelGame")>>)
    /\ UNCHANGED <<gameCounter, now, movesParity, receipt, front>>

\* submitMove's requires: in progress, the caller holds the turn, the
\* oracle attests the transition from the recorded position.
submitMoveError(g, sender, t) ==
    IF ~Created(g) \/ games[g].status # InProgress THEN "StateError"
    ELSE IF sender # TurnHolder(games[g]) THEN "AuthorizationError"
    ELSE IF t.prior # games[g].fen THEN "SignatureError"
    ELSE OK

\* submitMove: the position, the time, the turn; a pending offer lapses;
\* a terminal outcome finalizes.
submitMove(g, sender, t) ==
    LET moved == [games[g] EXCEPT !.fen = t.newFen,
                                  !.lastMoveTimestamp = now,
                                  !.isWhiteTurn = ~@,
                                  !.isDrawOffered = FALSE]
    IN
    /\ submitMoveError(g, sender, t) = OK
    /\ IF t.result = InProgress
       THEN /\ games' = [games EXCEPT ![g] = moved]
            /\ UNCHANGED <<balance, payouts>>
       ELSE finalize(g, moved, t.result, proceedResultTransfers(moved, t.result))
    /\ movesParity' = [movesParity EXCEPT ![g] = (movesParity[g] + 1) % 2]
    /\ UNCHANGED <<gameCounter, now, receipt, front>>

sessionTimeoutError(g, sender) ==
    IF ~Created(g) \/ games[g].status \notin {WaitingForOpponent, InProgress}
    THEN "StateError"
    ELSE IF now - games[g].lastMoveTimestamp < moveTimeout THEN "StateError"
    ELSE IF sender \notin {games[g].playerWhite, games[g].playerBlack}
         THEN "AuthorizationError"
    ELSE OK

\* The outcome of a timeout: a refund when nobody joined, a draw at the
\* initial position, otherwise the turn-holder forfeits.
sessionTimeoutStatus(session) ==
    IF session.playerBlack = Zero THEN Cancelled
    ELSE IF session.fen = startingFEN THEN Draw
    ELSE IF session.isWhiteTurn THEN BlackWon ELSE WhiteWon

sessionTimeout(g, sender) ==
    LET status == sessionTimeoutStatus(games[g])
        paid == IF status = Cancelled
                THEN <<Transfer(games[g].playerWhite, games[g].betAmount,
                                "callTimeout")>>
                ELSE proceedResultTransfers(games[g], status)
    IN
    /\ sessionTimeoutError(g, sender) = OK
    /\ finalize(g, games[g], status, paid)
    /\ UNCHANGED <<gameCounter, now, movesParity, receipt, front>>

offerDrawError(g, sender) ==
    IF ~Created(g) \/ games[g].status # InProgress THEN "StateError"
    ELSE IF sender \notin {games[g].playerWhite, games[g].playerBlack}
         THEN "AuthorizationError"
    ELSE IF sender = TurnHolder(games[g]) THEN "AuthorizationError"
    ELSE OK

offerDraw(g, sender) ==
    /\ offerDrawError(g, sender) = OK
    /\ games' = [games EXCEPT ![g].isDrawOffered = TRUE]
    /\ UNCHANGED <<gameCounter, balance, now, payouts, movesParity,
                   receipt, front>>

acceptDrawError(g, sender) ==
    IF ~Created(g) \/ games[g].status # InProgress \/ ~games[g].isDrawOffered
    THEN "StateError"
    ELSE IF sender # TurnHolder(games[g]) THEN "AuthorizationError"
    ELSE OK

\* acceptDraw: finalized as a draw, half of the stake to each party.
acceptDraw(g, sender) ==
    /\ acceptDrawError(g, sender) = OK
    /\ finalize(g, games[g], Draw,
                <<Transfer(games[g].playerWhite, games[g].betAmount \div 2, "acceptDraw"),
                  Transfer(games[g].playerBlack, games[g].betAmount \div 2, "acceptDraw")>>)
    /\ UNCHANGED <<gameCounter, now, movesParity, receipt, front>>

NextSessions ==
    \/ \E sender \in Creators, value \in Values : createSession(sender, value)
    \/ \E g \in GameIds, sender \in Joiners, value \in Values :
          joinSession(g, sender, value)
    \/ \E g \in GameIds, sender \in Callers : cancelSession(g, sender)
    \/ \E g \in GameIds, sender \in Callers, t \in Legal :
          submitMove(g, sender, t)
    \/ \E g \in GameIds, sender \in Callers : sessionTimeout(g, sender)
    \/ \E g \in GameIds, sender \in Callers : offerDraw(g, sender)
    \/ \E g \in GameIds, sender \in Callers : acceptDraw(g, sender)
    \/ Tick

SpecSessions == InitSessions /\ [][NextSessions]_vars

\* The front-end's availability rules for an account looking at session g.
isWaitingForOpponent(g) == games[g].status = 5

isInProgress(g) == games[g].status = 0

isPlayer(g, account) ==
    account = games[g].playerWhite \/ account = games[g].playerBlack

amWhite(g, account) == account = games[g].playerWhite

amBlack(g, account) == account = games[g].playerBlack

isMyTurn(g, account) ==
    \/ games[g].isWhiteTurn /\ amWhite(g, account)
    \/ ~games[g].isWhiteTurn /\ amBlack(g, account)

\* canCancel as it would be without amWhite; C26 depends on the
\* difference.
canCancel_AnyAccount(g, account) == isWaitingForOpponent(g)

canCancel(g, account) == isWaitingForOpponent(g) /\ amWhite(g, account)

\* canOfferDraw as it would be without !isMyTurn; C27 depends on the
\* difference.
canOfferDraw_OnMyTurn(g, account) ==
    isInProgress(g) /\ isPlayer(g, account) /\ ~games[g].isDrawOffered

canOfferDraw(g, account) ==
    /\ isInProgress(g) /\ ~isMyTurn(g, account) /\ isPlayer(g, account)
    /\ ~games[g].isDrawOffered

canAcceptDraw(g, account) ==
    isInProgress(g) /\ games[g].isDrawOffered /\ isMyTurn(g, account)

(* -------------------------------- C26 --------------------------------- *)

RECURSIVE ActiveStakes(_)
ActiveStakes(S) ==
    IF S = {} THEN 0
    ELSE LET g == CHOOSE x \in S : TRUE
         IN  (IF games[g].isActive THEN games[g].betAmount ELSE 0)
             + ActiveStakes(S \ {g})

\* C31: in every reachable state the ledger's balance is the sum of the
\* recorded stakes of the sessions that have not ended, and what a session
\* that has ended paid out is what was deposited into it: no finalization
\* pays more than its session holds or takes from another session.
C31_EscrowIsConserved ==
    /\ balance = ActiveStakes(GameIds)
    /\ \A g \in GameIds :
          /\ Terminal(g) => TotalOf(payouts[g]) = games[g].betAmount
          /\ ~Terminal(g) => payouts[g] = <<>>

\* One session has ended and paid out its two deposits while another one
\* with a stake is still active: the balance is the stake of the latter.
C31_Witness ==
    \E g \in GameIds, h \in GameIds :
        /\ Terminal(g) /\ Joined(g) /\ TotalOf(payouts[g]) = 2
        /\ games[h].isActive /\ games[h].betAmount > 0
        /\ balance = games[h].betAmount

(* --------------------- payouts that call back ------------------------- *)

\* A payout hands control to its recipient before the finalizing call
\* returns: _safeTransfer's call runs the recipient's code, which can call
\* the contract again, inside the same transaction. The finalizing call is
\* split at its transfers; while it is in flight, receipt holds its frame:
\* the session, the transfers, how many were sent, and the ledger to go
\* back to if the call reverts. callTimeout's transfer is given the same
\* freedom, although its gas stipend does not pay for a call. The calls
\* made from the callback are taken whole, their own payouts made without
\* a further callback.
SetLedger(led) ==
    /\ games' = led.games
    /\ gameCounter' = led.gameCounter
    /\ balance' = led.balance
    /\ payouts' = led.payouts
    /\ movesParity' = led.movesParity

Frame(g, ts, k, before) ==
    [fn |-> "payout", error |-> OK, sent |-> k, dirty |-> TRUE,
     game |-> g, transfers |-> ts, before |-> before]

InPayout == receipt.fn = "payout"

\* The recipient whose code is running.
PayoutRecipient == receipt.transfers[receipt.sent].to

\* A finishing move up to its first transfer: the checks, the writes of
\* lines 81-83, isActive = false, then the call to the recipient.
movePays(g, sender, t, class) ==
    LET moved == movedGame(games[g], t.newFen, now)
        ts == proceedResultTransfers(finishedGame(moved), t.result)
        written == [Ledger EXCEPT !.games[g] = finishedGame(moved),
                                  !.movesParity[g] = (@ + 1) % 2]
    IN
    /\ receipt = NoReceipt
    /\ getActiveGameError(g) = OK
    /\ turnError(games[g], sender) = OK
    /\ verifyMoveError(g, t.newFen, t.result, SigOf(class, g, t)) = OK
    /\ t.result # InProgress
    /\ ts # <<>>
    /\ safeTransferError(ts[1].to, ts[1].amount, balance, Zero) = OK
    /\ SetLedger(AfterTransfers(written, g, ts, 1))
    /\ receipt' = Frame(g, ts, 1, Ledger)
    /\ UNCHANGED <<now, front>>

\* callTimeout up to its transfer, to a recipient that has code.
callTimeoutPays(g, sender) ==
    LET ts == <<Transfer(callTimeoutRecipient(games[g]), games[g].betAmount,
                         "callTimeout")>>
        cleared == [Ledger EXCEPT !.games[g] = finishedGame(games[g])]
    IN
    /\ receipt = NoReceipt
    /\ callTimeoutError(g, sender, Zero) = OK
    /\ ts[1].to # Zero
    /\ SetLedger(AfterTransfers(cleared, g, ts, 1))
    /\ receipt' = Frame(g, ts, 1, Ledger)
    /\ UNCHANGED <<now, front>>

\* The recipient's code calls the contract and the call goes through.
reenter ==
    /\ InPayout
    /\ \/ \E value \in Values :
            /\ gameCounter < MaxGames
            /\ SetLedger([Ledger EXCEPT
                  !.gameCounter = @ + 1,
                  !.games[gameCounter + 1] =
                      newGameRecord(gameCounter + 1, PayoutRecipient, value, now),
                  !.balance = @ + value])
       \/ \E h \in GameIds, value \in Values :
            /\ joinGameError(h, PayoutRecipient, value) = OK
            /\ SetLedger(joinGameReached(h, PayoutRecipient, value))
       \/ \E h \in GameIds, t \in Legal, class \in SigClasses :
            /\ moveError(h, PayoutRecipient, t.newFen, t.result,
                         SigOf(class, h, t), Zero) = OK
            /\ SetLedger(moveReached(h, PayoutRecipient, t.newFen, t.result,
                                     SigOf(class, h, t), Zero))
       \/ \E h \in GameIds :
            /\ callTimeoutError(h, PayoutRecipient, Zero) = OK
            /\ SetLedger(callTimeoutReached(h, PayoutRecipient, Zero))
    /\ UNCHANGED <<now, receipt, front>>

\* The recipient's code returns: the next transfer is tried, or the call
\* ends; a transfer that fails reverts the whole transaction.
payoutReturns ==
    LET k == receipt.sent
        ts == receipt.transfers
    IN
    /\ InPayout
    /\ IF k = Len(ts)
       THEN /\ receipt' = NoReceipt
            /\ UNCHANGED <<games, gameCounter, balance, payouts, movesParity>>
       ELSE IF safeTransferError(ts[k + 1].to, ts[k + 1].amount, balance, Zero) # OK
       THEN /\ SetLedger(Reverted(receipt.before, Ledger))
            /\ receipt' = NoReceipt
       ELSE /\ SetLedger(AfterTransfers(Ledger, receipt.game, <<ts[k + 1]>>, 1))
            /\ receipt' = [receipt EXCEPT !.sent = k + 1]
    /\ UNCHANGED <<now, front>>

\* The recipient's code fails: require(success) reverts the transaction.
payoutRefused ==
    /\ InPayout
    /\ SetLedger(Reverted(receipt.before, Ledger))
    /\ receipt' = NoReceipt
    /\ UNCHANGED <<now, front>>

NextReentrant ==
    \/ receipt = NoReceipt /\ Next
    \/ \E g \in GameIds, sender \in Callers, t \in Legal, class \in SigClasses :
          movePays(g, sender, t, class)
    \/ \E g \in GameIds, sender \in Callers : callTimeoutPays(g, sender)
    \/ reenter
    \/ payoutReturns
    \/ payoutRefused

SpecReentrant == Init /\ [][NextReentrant]_vars

(* -------------------------------- C32 --------------------------------- *)

\* C32: while a payout of a session is in flight, the recipient's code
\* running before the finalizing call has returned, the session is already
\* inactive and every joinGame, move and callTimeout on it is rejected,
\* whoever sends it and whatever it carries; what has been sent for the
\* session is the transfers of the call in flight, and no session ever
\* pays out more than its stake.
C32_NoReentryIntoThePayingSession ==
    /\ InPayout =>
          /\ ~games[receipt.game].isActive
          /\ payouts[receipt.game] = SubSeq(receipt.transfers, 1, receipt.sent)
          /\ \A sender \in Callers :
                /\ \A value \in Values :
                      joinGameError(receipt.game, sender, value) # OK
                /\ \A t \in Legal, class \in SigClasses,
                      refuser \in Refusers(receipt.game) :
                      moveError(receipt.game, sender, t.newFen, t.result,
                                SigOf(class, receipt.game, t), refuser) # OK
                /\ \A refuser \in Refusers(receipt.game) :
                      callTimeoutError(receipt.game, sender, refuser) # OK
    /\ \A g \in GameIds : TotalOf(payouts[g]) <= games[g].betAmount

\* The first half of a draw has been sent and its recipient, called back,
\* has meanwhile had another call accepted on another session; the session
\* that is paying still holds its second half.
C32_Witness ==
    /\ InPayout
    /\ receipt.sent = 1 /\ Len(receipt.transfers) = 2
    /\ receipt.transfers[1].amount > 0
    /\ \E h \in GameIds \ {receipt.game} :
          /\ games[h] # receipt.before.games[h]
          /\ games[h].isActive
    /\ balance >= receipt.transfers[2].amount

(* -------------------------------- C33 --------------------------------- *)

\* C33: the oracle's attestation of a move for session i is rejected by
\* move on every other session j, for every caller; the turn-holder of an
\* active session j is turned away for the signature and nothing else,
\* also when i and j have the same parties, position and turn.
C33_AttestationBoundToItsSession ==
    \A i \in GameIds, j \in GameIds, sender \in Callers, t \in Legal :
        \A refuser \in Refusers(j) :
            i # j =>
                /\ moveError(j, sender, t.newFen, t.result,
                             OracleAttest(i, t), refuser) # OK
                /\ (getActiveGameError(j) = OK /\ turnError(games[j], sender) = OK) =>
                      moveError(j, sender, t.newFen, t.result,
                                OracleAttest(i, t), refuser) = "Invalid signature"

\* Two active sessions with the same parties, stake, position and turn,
\* the position after a move: the attestation of the next move for one of
\* them lets the turn-holder move there and is rejected on the other.
C33_Witness ==
    \E i \in GameIds, j \in GameIds, t \in Legal :
        /\ i # j /\ Joined(i) /\ Joined(j)
        /\ games[i].isActive /\ games[j].isActive
        /\ games[i].playerWhite = games[j].playerWhite
        /\ games[i].playerBlack = games[j].playerBlack
        /\ games[i].betAmount = games[j].betAmount
        /\ games[i].fen = games[j].fen /\ games[i].fen # startingFEN
        /\ games[i].isWhiteTurn = games[j].isWhiteTurn
        /\ t.prior = games[i].fen
        /\ moveError(i, TurnHolder(games[i]), t.newFen, t.result,
                     OracleAttest(i, t), Zero) = OK
        /\ moveError(j, TurnHolder(games[j]), t.newFen, t.result,
                     OracleAttest(i, t), Zero) = "Invalid signature"

(* -------------------------------- C34 --------------------------------- *)

\* C34: the stake of every session with two parties is even, and a draw
\* that was paid out paid each party half of the stake, the two halves
\* adding up to the whole stake: nothing of it stays in the ledger.
C34_DrawLeavesNoRemainder ==
    \A g \in GameIds :
        /\ Joined(g) => games[g].betAmount % 2 = 0
        /\ (Terminal(g) /\ Len(payouts[g]) = 2) =>
              /\ Joined(g)
              /\ payouts[g][1].amount = games[g].betAmount \div 2
              /\ payouts[g][2].amount = games[g].betAmount \div 2
              /\ TotalOf(payouts[g]) = games[g].betAmount
              /\ balance = ActiveStakes(GameIds \ {g})

\* A session with a stake has ended in a draw, paid in two halves, while
\* the other session holds a deposit.
C34_Witness ==
    \E g \in GameIds, h \in GameIds :
        /\ Terminal(g) /\ Len(payouts[g]) = 2
        /\ payouts[g][1].amount = 1 /\ payouts[g][2].amount = 1
        /\ games[h].isActive /\ games[h].betAmount = 1 /\ balance = 1

(* -------------------------------- C35 --------------------------------- *)

\* C35: in every reachable state the two parties of a session are
\* different identities and a session with two parties rejects every
\* joinGame; no step changes the partyA of an existing session, or its
\* partyB once it is set.
C35_PartiesAreDistinctAndFixed ==
    /\ [](\A g \in GameIds :
            /\ Created(g) => /\ games[g].playerWhite # Zero
                             /\ games[g].playerWhite # games[g].playerBlack
            /\ Joined(g) =>
                  \A sender \in Callers, value \in Values :
                      joinGameError(g, sender, value) # OK)
    /\ [][\A g \in GameIds :
            Created(g) =>
                /\ games'[g].playerWhite = games[g].playerWhite
                /\ games[g].playerBlack # Zero =>
                      games'[g].playerBlack = games[g].playerBlack]_vars

\* A joined, active session with a deposit that a third identity tries to
\* join with the right deposit, as does its creator.
C35_Witness ==
    \E g \in GameIds :
        /\ Joined(g) /\ games[g].isActive /\ games[g].betAmount = 2
        /\ games[g].playerWhite = "A" /\ games[g].playerBlack = "B"
        /\ joinGameError(g, "C", 2) = "Game already has two players"
        /\ joinGameError(g, "A", 2) = "Game already has two players"
        /\ movesParity[g] = 1

(* -------------------------------- C36 --------------------------------- *)

\* What the ledger holds for session g.
Escrow(g) == IF games[g].isActive THEN games[g].betAmount ELSE 0

\* C36: a joinGame, move or callTimeout on session i leaves the record,
\* the payouts and the escrow of every other session as they were, the
\* balance changing by what the escrow of i changes by; a newGame leaves
\* every existing session as it was and adds the new deposit.
C36_OperationsTouchTheirSessionOnly ==
    [][\A i \in GameIds :
          /\ (\/ \E sender \in Joiners, value \in Values :
                    joinGame(i, sender, value)
              \/ MoveAccepted(i)
              \/ \E sender \in Callers, refuser \in Refusers(i) :
                    callTimeout(i, sender, refuser)) =>
                /\ \A j \in GameIds \ {i} :
                      /\ games'[j] = games[j]
                      /\ payouts'[j] = payouts[j]
                      /\ Escrow(j)' = Escrow(j)
                /\ balance' - balance = Escrow(i)' - Escrow(i)
                /\ gameCounter' = gameCounter
          /\ (i = gameCounter + 1
                /\ \E sender \in Creators, value \in Values :
                      newGame(sender, value)) =>
                /\ \A j \in GameIds \ {i} :
                      /\ games'[j] = games[j]
                      /\ payouts'[j] = payouts[j]
                /\ balance' - balance = Escrow(i)']_vars

\* Two sessions with a deposit, both joined and played on, one of them
\* ended by a payout while the other is still active.
C36_Witness ==
    \E i \in GameIds, j \in GameIds :
        /\ Joined(i) /\ Terminal(i) /\ TotalOf(payouts[i]) = 2
        /\ movesParity[i] = 1
        /\ Joined(j) /\ games[j].isActive /\ Escrow(j) = 2
        /\ games[j].fen # startingFEN
        /\ balance = 2

(* -------------------------------- C37 --------------------------------- *)

\* C37: joinGame, move and callTimeout on an id that newGame has not
\* handed out (0, or one above gameCounter) are rejected, for every caller
\* and whatever they carry; the rejected joinGame leaves the deposit sent
\* with it out of the ledger, and the slot of the id stays unwritten.
C37_UnknownIdIsRejected ==
    \A g \in GameIds :
        ~Created(g) =>
            /\ games[g] = NoGame /\ payouts[g] = <<>>
            /\ \A sender \in Callers :
                  /\ \A value \in Values :
                        /\ joinGameError(g, sender, value) = "Game is not active"
                        /\ Reverted(Ledger, joinGameReached(g, sender, value)).balance
                              = balance
                        /\ Reverted(Ledger, joinGameReached(g, sender, value)).games[g]
                              = NoGame
                  /\ \A t \in Legal, class \in SigClasses :
                        moveError(g, sender, t.newFen, t.result,
                                  SigOf(class, g, t), Zero) = "Game is not active"
                  /\ callTimeoutError(g, sender, Zero) = "Game is not active"

\* One session exists and holds a deposit, time has passed the deadline,
\* and a joinGame carrying a deposit is sent to id 0 and to the id that
\* comes next: the deposit is credited when the call is entered and is gone
\* again when it is rejected.
C37_Witness ==
    /\ gameCounter = 1 /\ games[1].isActive /\ balance = 1
    /\ timeoutReached(games[1], now)
    /\ \A g \in {0, 2} :
          /\ joinGameError(g, "B", 1) # OK
          /\ joinGameReached(g, "B", 1).balance = 2
          /\ Reverted(Ledger, joinGameReached(g, "B", 1)).balance = 1

(* ------------------------------ front-end ------------------------------ *)

\* The page changes its own state and leaves the ledger alone: what it sends
\* reaches the ledger as the calls modelled above.
Show(f) ==
    /\ front' = f
    /\ UNCHANGED <<games, gameCounter, balance, now, payouts, movesParity,
                   receipt>>

\* The board and the Make Move button are enabled.
canMovePieces ==
    /\ ~front.loading
    /\ front.gameState.loaded
    /\ front.gameState.isActive
    /\ front.gameState.myTurn

\* The catch block followed by the finally block.
caught_KeepsPending(h) ==
    [front EXCEPT !.loading = FALSE,
                  !.handlers[h].pc = "done", !.handlers[h].ret = "false"]

caught(h) ==
    [front EXCEPT !.pendingMove = FALSE, !.loading = FALSE,
                  !.handlers[h].pc = "done", !.handlers[h].ret = "false"]

\* The end of the try block followed by the finally block.
confirmed(h) ==
    [front EXCEPT !.pendingMove = FALSE, !.loading = FALSE,
                  !.status = "Move confirmed on-chain!",
                  !.handlers[h].pc = "done", !.handlers[h].ret = "true"]

\* A move is dropped on the board or submitted: the handler runs up to the
\* request to the oracle.
executeOracleMove(h) ==
    /\ front.handlers[h].pc = "idle"
    /\ canMovePieces
    /\ Show([front EXCEPT !.loading = TRUE,
                          !.status = "Validating with Oracle...",
                          !.handlers[h] = [pc |-> "oracle",
                                           attested |-> FALSE,
                                           sent |-> FALSE, ret |-> "none",
                                           seen |-> Closure(front)]])

\* The oracle answers with an attestation: the handler asks the wallet to
\* send the move.
oracleAttests(h) ==
    /\ front.handlers[h].pc = "oracle"
    /\ Show([front EXCEPT !.status = "Please confirm move",
                          !.pendingMove = TRUE,
                          !.handlers[h].attested = TRUE,
                          !.handlers[h].pc = "confirm"])

\* The oracle rejects the move or cannot be reached: axios throws.
oracleRejects(h) ==
    /\ front.handlers[h].pc = "oracle"
    /\ Show(caught(h))

\* contract.move returns the transaction.
txSent(h) ==
    /\ front.handlers[h].pc = "confirm"
    /\ Show([front EXCEPT !.status = "Move sent to blockchain. Waiting...",
                          !.handlers[h].sent = TRUE,
                          !.handlers[h].pc = "wait"])

\* contract.move throws: the user refuses in the wallet, or the call is
\* estimated to revert.
txRefused(h) ==
    /\ front.handlers[h].pc = "confirm"
    /\ Show(caught(h))

\* tx.wait returns.
txConfirmed(h) ==
    /\ front.handlers[h].pc = "wait"
    /\ Show(confirmed(h))

\* tx.wait throws: the transaction reverted.
txFailed(h) ==
    /\ front.handlers[h].pc = "wait"
    /\ Show(caught(h))

\* The handler returned false: nothing of it is left.
moveAbandoned(h) ==
    /\ front.handlers[h].pc = "done"
    /\ front.handlers[h].ret = "false"
    /\ Show([front EXCEPT !.handlers[h] = IdleHandler])

\* The fetchGameState a confirmed move scheduled starts, with the closure of
\* the render the handler was created in.
refetch(h) ==
    /\ front.handlers[h].pc = "done"
    /\ front.handlers[h].ret = "true"
    /\ front.poll.pc = "idle"
    /\ Show([front EXCEPT !.handlers[h] = IdleHandler,
                          !.poll = [pc |-> "await",
                                    seen |-> front.handlers[h].seen]])

\* Another handler of the page runs up to its transaction; its button does
\* not look at loading.
claimTimeout ==
    /\ front.other = "idle"
    /\ front.gameState.loaded
    /\ front.gameState.isActive
    /\ Show([front EXCEPT !.loading = TRUE, !.other = "wait"])

\* Its transaction is confirmed or fails: the finally block.
claimTimeoutReturns ==
    /\ front.other = "wait"
    /\ Show([front EXCEPT !.loading = FALSE, !.other = "idle"])

\* The interval fires: fetchGameState of the latest render runs up to
\* contract.games.
fetchGameState ==
    /\ front.poll.pc = "idle"
    /\ Show([front EXCEPT !.poll = [pc |-> "await",
                                    seen |-> Closure(front)]])

\* The banner fetchGameState leaves, from what the ledger answered and what
\* its closure holds.
banner(isActive, myTurn) ==
    IF front.account = "player"
    THEN IF ~front.poll.seen.pendingMove
         THEN IF isActive /\ myTurn THEN YourTurn
              ELSE IF isActive THEN OpponentsTurn
              ELSE IF front.poll.seen.turnBanner
                   THEN ""
                   ELSE front.status
         ELSE front.status
    ELSE "Your are not a player. Spectating mode"

\* contract.games answers: the rest of fetchGameState.
fetched(isActive, myTurn) ==
    /\ front.poll.pc = "await"
    /\ myTurn => front.account = "player"
    /\ Show([front EXCEPT !.gameState = [loaded |-> TRUE,
                                         isActive |-> isActive,
                                         myTurn |-> myTurn],
                          !.status = banner(isActive, myTurn),
                          !.poll = IdlePoll])

\* contract.games throws: the error is logged.
fetchFailed ==
    /\ front.poll.pc = "await"
    /\ Show([front EXCEPT !.poll = IdlePoll])

InitFront ==
    /\ games = [g \in GameIds |-> NoGame]
    /\ gameCounter = 0
    /\ balance = 0
    /\ now = 0
    /\ payouts = [g \in GameIds |-> <<>>]
    /\ movesParity = [g \in GameIds |-> 0]
    /\ receipt = NoReceipt
    /\ front \in {Loaded(account) : account \in {"player", "spectator"}}

NextFront ==
    \/ \E h \in Handlers : executeOracleMove(h)
    \/ \E h \in Handlers : oracleAttests(h)
    \/ \E h \in Handlers : oracleRejects(h)
    \/ \E h \in Handlers : txSent(h)
    \/ \E h \in Handlers : txRefused(h)
    \/ \E h \in Handlers : txConfirmed(h)
    \/ \E h \in Handlers : txFailed(h)
    \/ \E h \in Handlers : moveAbandoned(h)
    \/ \E h \in Handlers : refetch(h)
    \/ claimTimeout
    \/ claimTimeoutReturns
    \/ fetchGameState
    \/ \E isActive, myTurn \in BOOLEAN : fetched(isActive, myTurn)
    \/ fetchFailed

SpecFront == InitFront /\ [][NextFront]_vars

(* --------------------------------- C38 --------------------------------- *)

\* C38: executeOracleMove sends a move transaction only after the oracle has
\* returned an attestation for the move: a handler that asks the wallet, or
\* that has a transaction, has the attestation, and a handler the oracle
\* refused ends with no transaction; and at the step a handler finishes,
\* whether the oracle refused, the transaction failed or it was confirmed,
\* loading and pendingMove are both false.
C38_MoveSentAfterAttestationAndFlagsCleared ==
    /\ [](\A h \in Handlers :
            /\ front.handlers[h].pc \in {"confirm", "wait"}
                   => front.handlers[h].attested
            /\ front.handlers[h].sent => front.handlers[h].attested)
    /\ [][\A h \in Handlers :
            /\ oracleRejects(h) => ~front'.handlers[h].sent
            /\ (/\ front.handlers[h].pc \in {"oracle", "confirm", "wait"}
                /\ front'.handlers[h].pc = "done")
                   => /\ ~front'.loading
                      /\ ~front'.pendingMove
                      /\ front'.handlers[h].ret =
                             (IF txConfirmed(h) THEN "true" ELSE "false")]_vars

\* One move the oracle refused and one move confirmed on the ledger have both
\* finished, and both flags are false.
C38_Witness ==
    \E h, k \in Handlers :
        /\ front.handlers[h].pc = "done"
        /\ front.handlers[h].ret = "false"
        /\ ~front.handlers[h].attested
        /\ ~front.handlers[h].sent
        /\ front.handlers[k].pc = "done"
        /\ front.handlers[k].ret = "true"
        /\ front.handlers[k].sent
        /\ ~front.loading
        /\ ~front.pendingMove

(* --------------------------------- C39 --------------------------------- *)

\* C39: a fetchGameState that completes for a player while a move is pending
\* (pendingMove is true) never overwrites the status banner with "Your Turn!"
\* or "Opponent's Turn", whatever the interleaving of the poll with
\* executeOracleMove.
C39_PollKeepsThePendingBanner ==
    [][\A isActive, myTurn \in BOOLEAN :
         (/\ fetched(isActive, myTurn)
          /\ front.account = "player"
          /\ front.pendingMove
          /\ front'.status # front.status)
             => front'.status \notin {YourTurn, OpponentsTurn}]_vars

\* What the code does ensure: a fetchGameState created by a render in which
\* the move was already pending leaves the banner alone.
C39_PollOfAPendingRenderKeepsTheBanner ==
    [][\A isActive, myTurn \in BOOLEAN :
         (/\ fetched(isActive, myTurn)
          /\ front.account = "player"
          /\ front.poll.seen.pendingMove)
             => front'.status = front.status]_vars

============================================================================
